---- MODULE Spec2Model ----
(***************************************************************************)
(* Groups data models of invenio_groups/models.py: the group, membership   *)
(* and group-admin tables and the operations of Group, Membership and      *)
(* GroupAdmin on them.                                                     *)
(*                                                                         *)
(* The three tables are the state.  A group row is a record with the       *)
(* columns of Group, an admin row a record with the columns of GroupAdmin  *)
(* (its autoincrement id included), a membership row a record with the     *)
(* columns of Membership.  The membership table has no surrogate key, so   *)
(* it is kept as a bag of rows: whether two rows for one (user, group)     *)
(* pair can exist is then decided by the insert, not by the data type.     *)
(* The created/modified timestamps are not modelled.                       *)
(*                                                                         *)
(* Every action of Spec is one call of a public operation made in a        *)
(* request of its own (views/settings.py loads its objects and makes one   *)
(* mutating call per request), on a usable session.  SpecRace splits       *)
(* Membership.create into its statements and runs two callers, each on a   *)
(* session and transaction of its own, against one store.                  *)
(***************************************************************************)
EXTENDS Integers, FiniteSets, Sequences, Bags, TLC

VARIABLES groups, members, admins, nextGroupId, nextAdminId, last, session, sent,
          calls, uncommitted, foreign_keys

vars == <<groups, members, admins, nextGroupId, nextAdminId, last, session, sent,
          calls, uncommitted, foreign_keys>>

dbvars == <<groups, members, admins, nextGroupId, nextAdminId>>

racevars == <<calls, uncommitted, foreign_keys>>

callvars == <<last, session, sent>>

-----------------------------------------------------------------------------
(* Bounds of the model.                                                    *)

\* Largest value the autoincrement Group.id takes.
MaxGroupId == 2

\* Largest value the autoincrement GroupAdmin.id takes.
MaxAdminRowId == 1

\* Most rows the membership table holds.
MaxMembers == 2

\* The users of the accounts module (User.id), which this module never creates.
Users == {1, 2}

\* The users of SpecAdmin.
AdminUsers == {1}

\* Group names handed to Group.create.
Names == {"a", "b"}

\* The two concurrent callers of SpecRace.
Callers == {"c1", "c2"}

-----------------------------------------------------------------------------
(* Policy value types.                                                     *)

\* None where a policy, a state or a name is expected.
None == "None"

\* The values of the Boolean column is_managed, kept apart from None.
True == "True"

False == "False"

\* None where an object (a row, a user, an admin) is expected.
NoObject == [kind |-> "NoneType", id |-> 0]

OPEN == "O"

APPROVAL == "A"

CLOSED == "C"

PUBLIC == "P"

MEMBERS == "M"

ADMINS == "A"

PENDING_ADMIN == "A"

PENDING_USER == "U"

ACTIVE == "M"

\* A code no policy or state class knows.
BadCode == "X"

SubscriptionPolicy_validate(policy) == policy \in {OPEN, APPROVAL, CLOSED}

\* A validate that lets every code through.
PrivacyPolicy_validate_any(policy) == TRUE

PrivacyPolicy_validate(policy) == policy \in {PUBLIC, MEMBERS, ADMINS}

MembershipState_validate(state) == state \in {ACTIVE, PENDING_ADMIN, PENDING_USER}

\* Column defaults of Group: a None handed to the constructor is left out of
\* the INSERT and the column default is stored.
DefaultPrivacy == ADMINS

DefaultSubscription == CLOSED

-----------------------------------------------------------------------------
(* Objects handed in as an admin: a User row, the UserInfo behind          *)
(* current_user, or a Group row.  kind is the object's class.              *)

UserObj(u) == [kind |-> "User", id |-> u]

UserInfoObj(u) == [kind |-> "UserInfo", id |-> u]

GroupObj(g) == [kind |-> "Group", id |-> g]

\* resolve_admin_type without the case of the current user: the class name.
resolve_admin_type_class(admin) == admin.kind

resolve_admin_type(admin) ==
    IF admin.kind = "UserInfo" THEN "User" ELSE admin.kind

-----------------------------------------------------------------------------
(* Rows and tables.                                                        *)

GroupRow(id, name, description, is_managed, privacy_policy, subscription_policy) ==
    [id |-> id, name |-> name, description |-> description,
     is_managed |-> is_managed, privacy_policy |-> privacy_policy,
     subscription_policy |-> subscription_policy]

MembershipRow(id_user, id_group, state) ==
    [id_user |-> id_user, id_group |-> id_group, state |-> state]

GroupAdminRow(id, group_id, admin_type, admin_id) ==
    [id |-> id, group_id |-> group_id, admin_type |-> admin_type,
     admin_id |-> admin_id]

NoRows == [r \in {} |-> 0]

\* INSERT of one row into a table kept as a bag.
BagInsert(tbl, row) ==
    IF row \in DOMAIN tbl
    THEN [tbl EXCEPT ![row] = @ + 1]
    ELSE [r \in DOMAIN tbl \cup {row} |-> IF r = row THEN 1 ELSE tbl[r]]

\* DELETE of every copy of the rows in gone.
BagDelete(tbl, gone) == [r \in DOMAIN tbl \ gone |-> tbl[r]]

\* Query.one(): the row when exactly one row matches, else the exception.
NoResultFound == [exc |-> "NoResultFound"]

MultipleResultsFound == [exc |-> "MultipleResultsFound"]

Exceptions == {NoResultFound, MultipleResultsFound}

one(tbl, rows) ==
    IF rows = {} THEN NoResultFound
    ELSE IF Cardinality(rows) = 1 /\ \A r \in rows : tbl[r] = 1
         THEN CHOOSE r \in rows : TRUE
         ELSE MultipleResultsFound

\* The same for a table kept as a set of rows with a surrogate key.
oneOf(rows) ==
    IF rows = {} THEN NoResultFound
    ELSE IF Cardinality(rows) = 1 THEN CHOOSE r \in rows : TRUE
         ELSE MultipleResultsFound

GroupIds(gtbl) == {g.id : g \in gtbl}

\* Group.query.get(id) of a group that exists.
GroupById(gtbl, id) == CHOOSE g \in gtbl : g.id = id

-----------------------------------------------------------------------------
(* Constraints the store enforces.                                         *)

\* A store without the unique index on Group.name.
GroupNameTaken_never(gtbl, name) == FALSE

\* Group.name is unique.
GroupNameTaken(gtbl, name) == \E g \in gtbl : g.name = name

\* A membership table without its primary key.
MembershipKeyTaken_never(mtbl, id_user, id_group) == FALSE

\* (id_user, id_group) is the primary key of Membership.
MembershipKeyTaken(mtbl, id_user, id_group) ==
    \E r \in DOMAIN mtbl : r.id_user = id_user /\ r.id_group = id_group

\* UniqueConstraint('group_id', 'admin_type', 'admin_id') of GroupAdmin.
\* A GroupAdmin table without the unique constraint.
AdminKeyTaken_never(atbl, group_id, admin_type, admin_id) == FALSE

AdminKeyTaken(atbl, group_id, admin_type, admin_id) ==
    \E a \in atbl : /\ a.group_id = group_id
                    /\ a.admin_type = admin_type
                    /\ a.admin_id = admin_id

-----------------------------------------------------------------------------
(* Read-only queries.                                                      *)

Group_get_by_name(gtbl, name) ==
    LET r == oneOf({g \in gtbl : g.name = name})
    IN  IF r = NoResultFound THEN NoObject ELSE r

Membership_get(mtbl, group, user) ==
    LET r == one(mtbl, {m \in DOMAIN mtbl : m.id_user = user /\ m.id_group = group})
    IN  IF r \in Exceptions THEN NoObject ELSE r

\* GroupAdmin.get that does not look at the admin type.
GroupAdmin_get_untyped(atbl, group, admin) ==
    LET r == oneOf({a \in atbl : a.group_id = group /\ a.admin_id = admin.id})
    IN  IF r \in Exceptions THEN NoObject ELSE r

GroupAdmin_get(atbl, group, admin) ==
    LET r == oneOf({a \in atbl : /\ a.group_id = group
                                 /\ a.admin_id = admin.id
                                 /\ a.admin_type = resolve_admin_type(admin)})
    IN  IF r \in Exceptions THEN NoObject ELSE r

Group_is_admin(atbl, group, admin) == GroupAdmin_get(atbl, group, admin) # NoObject

\* is_member that forgets the state of the membership.
Group_is_member_any(mtbl, group, user, with_pending) ==
    Membership_get(mtbl, group, user) # NoObject

Group_is_member(mtbl, group, user, with_pending) ==
    LET m == Membership_get(mtbl, group, user)
    IN  IF m # NoObject
        THEN (IF with_pending THEN TRUE ELSE m.state = ACTIVE)
        ELSE FALSE

Group_can_see_members(gtbl, mtbl, atbl, group, user) ==
    LET self == GroupById(gtbl, group)
    IN  IF self.privacy_policy = PUBLIC THEN TRUE
        ELSE IF self.privacy_policy = MEMBERS
             THEN Group_is_member(mtbl, group, user.id, FALSE)
        ELSE IF self.privacy_policy = ADMINS
             THEN Group_is_admin(atbl, group, user)
        ELSE None

\* Membership._filter: the rows of the query in the given state.
Membership_filter(rows, state) == {m \in rows : m.state = state}

\* Membership.query_by_group without with_invitations: state defaults to ACTIVE.
Membership_query_by_group(mtbl, group, state) ==
    Membership_filter({m \in DOMAIN mtbl : m.id_group = group}, state)

GroupAdmin_query_by_group(atbl, group) == {a \in atbl : a.group_id = group}

\* query_by_admin that finds no row.
GroupAdmin_query_by_admin_none(atbl, admin) == {}

GroupAdmin_query_by_admin(atbl, admin) ==
    {a \in atbl : /\ a.admin_type = resolve_admin_type(admin)
                  /\ a.admin_id = admin.id}

\* query_by_user that ignores the state asked for.
Membership_query_by_user_any(mtbl, user, state) ==
    {m \in DOMAIN mtbl : m.id_user = user.id}

\* Membership.query_by_user: the rows of the user in the given state.
Membership_query_by_user(mtbl, user, state) ==
    Membership_filter({m \in DOMAIN mtbl : m.id_user = user.id}, state)

\* query_requests that looks at the groups the admin administers only.
Membership_query_requests_direct(mtbl, atbl, admin) ==
    LET q1 == {a.group_id : a \in GroupAdmin_query_by_admin(atbl, admin)}
    IN  {m \in DOMAIN mtbl : m.state = PENDING_ADMIN /\ m.id_group \in q1}

\* Membership.query_requests: the PENDING_ADMIN rows of the groups the admin
\* administers (q2), united with those of the groups administered by a group
\* the admin is an ACTIVE member of (q5).
Membership_query_requests(mtbl, atbl, admin) ==
    LET q1 == {a.group_id : a \in GroupAdmin_query_by_admin(atbl, admin)}
        q2 == {m \in DOMAIN mtbl : m.state = PENDING_ADMIN /\ m.id_group \in q1}
        q3 == {m.id_group : m \in Membership_query_by_user(mtbl, admin, ACTIVE)}
        q4 == {a.group_id : a \in {b \in atbl : /\ b.admin_type = "Group"
                                                /\ b.admin_id \in q3}}
        q5 == {m \in DOMAIN mtbl : m.state = PENDING_ADMIN /\ m.id_group \in q4}
    IN  q2 \cup q5

\* Query.count() of a set of rows of a table kept as a bag.
count(tbl, rows) == BagCardinality([r \in rows |-> tbl[r]])

\* Group.members_count: the count of Membership.query_by_group(self), whose
\* state filter defaults to ACTIVE.
Group_members_count(mtbl, group) ==
    count(mtbl, Membership_query_by_group(mtbl, group, ACTIVE))

-----------------------------------------------------------------------------
(* Membership: the mutating operations, as functions of the tables.  Each  *)
(* yields the value returned or the exception raised (ret) and the tables  *)
(* as committed.                                                           *)

\* Membership.create that merges into the row of the pair instead of adding.
Membership_create_merge(mtbl, group, user, state) ==
    [ret |-> "Membership",
     members |-> BagInsert(
                     BagDelete(mtbl, {m \in DOMAIN mtbl :
                                         m.id_group = group /\ m.id_user = user}),
                     MembershipRow(user, group, state))]

\* Membership.create: add, commit; the INSERT fails on the primary key.
Membership_create(mtbl, group, user, state) ==
    IF MembershipKeyTaken(mtbl, user, group)
    THEN [ret |-> "IntegrityError", members |-> mtbl]
    ELSE [ret |-> "Membership",
          members |-> BagInsert(mtbl, MembershipRow(user, group, state))]

\* A delete that removes the row of the pair only when it is ACTIVE.
Membership_delete_active(mtbl, group, user) ==
    [ret |-> None,
     members |-> BagDelete(mtbl, {m \in DOMAIN mtbl : /\ m.id_group = group
                                                      /\ m.id_user = user
                                                      /\ m.state = ACTIVE})]

\* Membership.delete: bulk DELETE of the rows of (group, user), commit.
Membership_delete(mtbl, group, user) ==
    [ret |-> None,
     members |-> BagDelete(mtbl, {m \in DOMAIN mtbl :
                                     m.id_group = group /\ m.id_user = user})]

\* accept that activates every membership of the group of self.
Membership_accept_group(mtbl, self) ==
    LET rows == {IF m.id_group = self.id_group
                 THEN MembershipRow(m.id_user, m.id_group, ACTIVE) ELSE m :
                 m \in DOMAIN mtbl}
    IN  [ret |-> None, members |-> [m \in rows |-> 1]]

\* Membership.accept on the loaded row self: self.state = ACTIVE, commit.
Membership_accept(mtbl, self) ==
    LET row == MembershipRow(self.id_user, self.id_group, ACTIVE)
    IN  [ret |-> None, members |-> BagInsert(BagDelete(mtbl, {self}), row)]

\* reject that keeps the row, marked as rejected.
Membership_reject_tombstone(mtbl, self) ==
    [ret |-> None,
     members |-> BagInsert(BagDelete(mtbl, {self}),
                           MembershipRow(self.id_user, self.id_group, "R"))]

\* Membership.reject on the loaded row self: DELETE by primary key, commit.
Membership_reject(mtbl, self) ==
    [ret |-> None,
     members |-> BagDelete(mtbl, {m \in DOMAIN mtbl :
                                     /\ m.id_user = self.id_user
                                     /\ m.id_group = self.id_group})]

-----------------------------------------------------------------------------
(* Group: membership operations.                                           *)

Group_add_member(mtbl, group, user, state) ==
    Membership_create(mtbl, group, user, state)

Group_remove_member(mtbl, group, user) == Membership_delete(mtbl, group, user)

\* invite that does not verify the actor.
Group_invite_unchecked(mtbl, atbl, group, user, admin) ==
    Group_add_member(mtbl, group, user, PENDING_USER)

Group_invite(mtbl, atbl, group, user, admin) ==
    IF admin = NoObject \/ Group_is_admin(atbl, group, admin)
    THEN Group_add_member(mtbl, group, user, PENDING_USER)
    ELSE [ret |-> None, members |-> mtbl]

\* The email of a user, and an address no user has.
EmailOf(u) == IF u = 1 THEN "one@example.org" ELSE "two@example.org"

NobodysEmail == "nobody@example.org"

\* User.query.filter_by(email=email).one()
User_by_email(email) == oneOf({UserObj(u) : u \in {v \in Users : EmailOf(v) = email}})

\* Group.invite_by_emails: the body of the loop returns in its first pass,
\* the invitation of the user of the first email, or None when the lookup or
\* the invitation raised; an empty list falls through the loop.
Group_invite_by_emails(mtbl, atbl, group, emails) ==
    IF emails = <<>> THEN [ret |-> None, members |-> mtbl]
    ELSE LET user == User_by_email(emails[1])
         IN  IF user \in Exceptions THEN [ret |-> None, members |-> mtbl]
             ELSE LET r == Group_invite(mtbl, atbl, group, user.id, NoObject)
                  IN  IF r.ret = "IntegrityError"
                      THEN [ret |-> None, members |-> r.members]
                      ELSE r

\* subscribe that activates the membership whenever the group is not closed.
Group_subscribe_active(gtbl, mtbl, group, user) ==
    IF GroupById(gtbl, group).subscription_policy = CLOSED
    THEN [ret |-> None, members |-> mtbl]
    ELSE Group_add_member(mtbl, group, user, ACTIVE)

Group_subscribe(gtbl, mtbl, group, user) ==
    LET self == GroupById(gtbl, group)
    IN  IF self.subscription_policy = OPEN
        THEN Group_add_member(mtbl, group, user, ACTIVE)
        ELSE IF self.subscription_policy = APPROVAL
        THEN Group_add_member(mtbl, group, user, PENDING_ADMIN)
        ELSE [ret |-> None, members |-> mtbl]

-----------------------------------------------------------------------------
(* GroupAdmin.                                                             *)

\* GroupAdmin.create: cls(group=group, admin=admin) goes through the generic
\* relationship, which stores the class name of a mapped admin object (a
\* User or a Group row) and its primary key, and raises for an object of a
\* class that is not mapped (UserInfo, the current user).
GroupAdmin_create(atbl, aid, group, admin) ==
    IF admin.kind \notin {"User", "Group"}
    THEN [ret |-> "UnmappedClassError", admins |-> atbl, nextAdminId |-> aid]
    ELSE IF AdminKeyTaken(atbl, group, admin.kind, admin.id)
    THEN [ret |-> "IntegrityError", admins |-> atbl, nextAdminId |-> aid]
    ELSE [ret |-> "GroupAdmin",
          admins |-> atbl \cup {GroupAdminRow(aid, group, admin.kind, admin.id)},
          nextAdminId |-> aid + 1]

\* GroupAdmin.delete: one() of the rows of (admin, group), delete, commit.
GroupAdmin_delete(atbl, group, admin) ==
    LET obj == oneOf({a \in atbl : /\ a.admin_type = admin.kind
                                   /\ a.admin_id = admin.id
                                   /\ a.group_id = group})
    IN  IF obj \in Exceptions
        THEN [ret |-> obj.exc, admins |-> atbl]
        ELSE [ret |-> None, admins |-> atbl \ {obj}]

-----------------------------------------------------------------------------
(* Group: create, delete, update.                                          *)

\* The state a call leaves the transaction of its session in.  A commit that
\* fails leaves it inactive until db.session.rollback() is called; each
\* request starts with a session of its own.
Active == "active"

Inactive == "inactive"

\* The signals of the module.
group_created == "group_created"

group_deleted == "group_deleted"

\* A send placed before the commit: the signal goes out whatever follows.
SendAfterCommit_before(committed, signal) == <<signal>>

\* signal.send(...) is the statement after db.session.commit(): it runs when
\* the commit has returned, and not when the commit has raised.
SendAfterCommit(committed, signal) == IF committed THEN <<signal>> ELSE <<>>

\* A Group.create that registers none of the admins handed in.
CreateAdminRows_none(atbl, aid, gid, adminsList, i) == [ok |-> TRUE, admins |-> atbl]

\* The GroupAdmin rows Group.create adds for admins[i..], flushed in order;
\* ok is FALSE when one of them breaks the unique constraint.
RECURSIVE CreateAdminRows(_, _, _, _, _)
CreateAdminRows(atbl, aid, gid, adminsList, i) ==
    IF i > Len(adminsList) THEN [ok |-> TRUE, admins |-> atbl]
    ELSE LET a == adminsList[i]
             type == resolve_admin_type(a)
         IN  IF AdminKeyTaken(atbl, gid, type, a.id)
             THEN [ok |-> FALSE, admins |-> atbl]
             ELSE CreateAdminRows(
                      atbl \cup {GroupAdminRow(aid, gid, type, a.id)},
                      aid + 1, gid, adminsList, i + 1)

Group_create(gtbl, atbl, gid, aid, name, description, privacy_policy, subscription_policy, is_managed, adminsList) ==
    LET unchanged == [groups |-> gtbl, admins |-> atbl,
                      nextGroupId |-> gid, nextAdminId |-> aid,
                      session |-> Active]
        obj == GroupRow(gid, name, description, is_managed,
                        IF privacy_policy = None THEN DefaultPrivacy
                        ELSE privacy_policy,
                        IF subscription_policy = None THEN DefaultSubscription
                        ELSE subscription_policy)
        rows == CreateAdminRows(atbl, aid, gid, adminsList, 1)
    IN  IF \/ name = "" \/ name = None
           \/ ~(privacy_policy = None \/ PrivacyPolicy_validate(privacy_policy))
           \/ ~(subscription_policy = None
                \/ SubscriptionPolicy_validate(subscription_policy))
        THEN [ret |-> "AssertionError", sent |-> <<>>] @@ unchanged
        ELSE IF GroupNameTaken(gtbl, name) \/ ~rows.ok
        THEN [ret |-> "IntegrityError",
              sent |-> SendAfterCommit(FALSE, group_created)] @@ unchanged
        ELSE [ret |-> "Group", groups |-> gtbl \cup {obj}, admins |-> rows.admins,
              nextGroupId |-> gid + 1,
              nextAdminId |-> aid + Len(adminsList),
              session |-> Active,
              sent |-> SendAfterCommit(TRUE, group_created)]

\* Group.members without the delete cascade.
CascadeMembers_none(mtbl, group) == mtbl

\* cascade="all, delete-orphan" of Group.members: db.session.delete(group)
\* deletes the membership rows of the group.
CascadeMembers(mtbl, group) ==
    BagDelete(mtbl, {m \in DOMAIN mtbl : m.id_group = group})

\* cascade="all, delete-orphan" of Group.admins.
CascadeAdmins(atbl, group) == atbl \ {a \in atbl : a.group_id = group}

Group_delete(gtbl, mtbl, atbl, group) ==
    LET self == GroupById(gtbl, group)
        m1 == BagDelete(mtbl, Membership_query_by_group(mtbl, group, ACTIVE))
        a1 == atbl \ GroupAdmin_query_by_group(atbl, group)
        a2 == a1 \ GroupAdmin_query_by_admin(a1, GroupObj(group))
    IN  [ret |-> None,
         groups |-> gtbl \ {self},
         members |-> CascadeMembers(m1, group),
         admins |-> CascadeAdmins(a2, group),
         session |-> Active,
         sent |-> SendAfterCommit(TRUE, group_deleted)]

\* Group.update: the non-None parameters are assigned, invalid policies are
\* skipped; the commit fails when the new name is another group's, and the
\* error leaves without a rollback.
Group_update(gtbl, group, name, description, privacy_policy, subscription_policy, is_managed) ==
    LET self == GroupById(gtbl, group)
        obj == GroupRow(
                   self.id,
                   IF name # None THEN name ELSE self.name,
                   IF description # None THEN description ELSE self.description,
                   IF is_managed # None THEN is_managed ELSE self.is_managed,
                   IF privacy_policy # None /\ PrivacyPolicy_validate(privacy_policy)
                   THEN privacy_policy ELSE self.privacy_policy,
                   IF subscription_policy # None
                      /\ SubscriptionPolicy_validate(subscription_policy)
                   THEN subscription_policy ELSE self.subscription_policy)
    IN  IF GroupNameTaken(gtbl \ {self}, obj.name)
        THEN [ret |-> "IntegrityError", groups |-> gtbl, session |-> Inactive]
        ELSE [ret |-> "Group", groups |-> (gtbl \ {self}) \cup {obj},
              session |-> Active]

-----------------------------------------------------------------------------
(* One call per step.  last is the call made last: the operation and what  *)
(* it returned or raised.                                                  *)

Call(op, ret) == [op |-> op, ret |-> ret]

IdleCalls == [c \in Callers |-> [pc |-> "idle", group |-> 0, user |-> 0,
                                  state |-> None, ret |-> None]]

Init ==
    /\ groups = {}
    /\ members = NoRows
    /\ admins = {}
    /\ nextGroupId = 1
    /\ nextAdminId = 1
    /\ last = Call("init", None)
    /\ session = Active
    /\ sent = <<>>
    /\ calls = IdleCalls
    /\ uncommitted = {}
    /\ foreign_keys = TRUE

\* Number of rows of the membership table.
MemberCount(mtbl) == BagCardinality(mtbl)

\* Objects a caller can hand in as an admin, over the users us.
AdminObjs(us) == {UserObj(u) : u \in us} \cup {UserInfoObj(u) : u \in us}
                     \cup {GroupObj(g) : g \in GroupIds(groups)}

\* Admin objects with a mapped class (rows of User or Group).
MappedAdminObjs(us) == {a \in AdminObjs(us) : a.kind \in {"User", "Group"}}

\* The admins lists handed to Group.create: no admin or one.
AdminLists(us) == {<<>>} \cup {<<a>> : a \in AdminObjs(us)}

PrivacyInputs == {None, PUBLIC, MEMBERS, ADMINS}

SubscriptionInputs == {None, OPEN, APPROVAL, CLOSED}

\* Arguments Group.create asserts against: no name, an unknown policy code.
RefusedInputs ==
    {[name |-> "", privacy_policy |-> None, subscription_policy |-> None],
     [name |-> None, privacy_policy |-> None, subscription_policy |-> None],
     [name |-> "a", privacy_policy |-> BadCode, subscription_policy |-> None],
     [name |-> "a", privacy_policy |-> None, subscription_policy |-> BadCode]}

StateInputs == {ACTIVE, PENDING_ADMIN, PENDING_USER}

\* Arguments of Group.update: each may be None; a policy may be an unknown
\* code.
NameUpdates == Names \cup {None}

DescriptionUpdates == {None, "d"}

PrivacyUpdates == {None, PUBLIC, BadCode}

SubscriptionUpdates == {None, OPEN, BadCode}

ManagedUpdates == {None, True}

\* The email lists handed to invite_by_emails: up to two addresses, of users
\* and of nobody.
Emails == {EmailOf(u) : u \in Users} \cup {NobodysEmail}

EmailLists == {<<>>} \cup {<<e>> : e \in Emails}
                  \cup {<<e, f>> : e \in Emails, f \in Emails}

UpdateArgs(name, description, privacy_policy, subscription_policy, is_managed) ==
    [name |-> name, description |-> description, privacy_policy |-> privacy_policy,
     subscription_policy |-> subscription_policy, is_managed |-> is_managed]

\* The update calls made: nothing, each field alone, a rename, an unknown
\* policy code alone and together with other fields.
UpdateInputs ==
    {UpdateArgs(None, None, None, None, None),
     UpdateArgs("a", None, None, None, None),
     UpdateArgs("b", None, None, None, None),
     UpdateArgs(None, "d", None, None, None),
     UpdateArgs(None, None, PUBLIC, None, None),
     UpdateArgs(None, None, None, OPEN, None),
     UpdateArgs(None, None, None, None, True),
     UpdateArgs(None, None, BadCode, None, None),
     UpdateArgs(None, "d", BadCode, OPEN, None),
     UpdateArgs("b", None, PUBLIC, BadCode, True)}

DoCreate(name, privacy_policy, subscription_policy, adminsList) ==
    LET r == Group_create(groups, admins, nextGroupId, nextAdminId, name, "",
                          privacy_policy, subscription_policy, False, adminsList)
    IN  /\ r.ret = "Group" =>
              /\ nextGroupId <= MaxGroupId
              /\ nextAdminId + Len(adminsList) - 1 <= MaxAdminRowId
        /\ groups' = r.groups
        /\ admins' = r.admins
        /\ nextGroupId' = r.nextGroupId
        /\ nextAdminId' = r.nextAdminId
        /\ last' = Call("create", r.ret)
        /\ session' = r.session
        /\ sent' = r.sent
        /\ UNCHANGED <<members, racevars>>

DoDelete(g) ==
    LET r == Group_delete(groups, members, admins, g)
    IN  /\ groups' = r.groups
        /\ members' = r.members
        /\ admins' = r.admins
        /\ last' = Call("delete", r.ret)
        /\ session' = r.session
        /\ sent' = r.sent
        /\ UNCHANGED <<nextGroupId, nextAdminId, racevars>>

DoUpdate(g, name, description, privacy_policy, subscription_policy, is_managed) ==
    LET r == Group_update(groups, g, name, description, privacy_policy,
                          subscription_policy, is_managed)
    IN  /\ groups' = r.groups
        /\ last' = Call("update", r.ret)
        /\ session' = r.session
        /\ sent' = <<>>
        /\ UNCHANGED <<members, admins, nextGroupId, nextAdminId, racevars>>

MemberStep(op, r) ==
    /\ r.ret = "Membership" => MemberCount(members) < MaxMembers
    /\ members' = r.members
    /\ last' = Call(op, r.ret)
    /\ session' = Active
    /\ sent' = <<>>
    /\ UNCHANGED <<groups, admins, nextGroupId, nextAdminId, racevars>>

DoAddMember(g, u, state) ==
    MemberStep("add_member", Group_add_member(members, g, u, state))

DoRemoveMember(g, u) ==
    MemberStep("remove_member", Group_remove_member(members, g, u))

DoInvite(g, u, admin) ==
    MemberStep("invite", Group_invite(members, admins, g, u, admin))

DoInviteByEmails(g, emails) ==
    MemberStep("invite_by_emails",
               Group_invite_by_emails(members, admins, g, emails))

DoSubscribe(g, u) ==
    MemberStep("subscribe", Group_subscribe(groups, members, g, u))

DoAccept(m) == MemberStep("accept", Membership_accept(members, m))

DoReject(m) == MemberStep("reject", Membership_reject(members, m))

DoAddAdmin(g, admin) ==
    LET r == GroupAdmin_create(admins, nextAdminId, g, admin)
    IN  /\ r.ret = "GroupAdmin" => nextAdminId <= MaxAdminRowId
        /\ admins' = r.admins
        /\ nextAdminId' = r.nextAdminId
        /\ last' = Call("add_admin", r.ret)
        /\ session' = Active
        /\ sent' = <<>>
        /\ UNCHANGED <<groups, members, nextGroupId, racevars>>

DoRemoveAdmin(g, admin) ==
    LET r == GroupAdmin_delete(admins, g, admin)
    IN  /\ admins' = r.admins
        /\ last' = Call("remove_admin", r.ret)
        /\ session' = Active
        /\ sent' = <<>>
        /\ UNCHANGED <<groups, members, nextGroupId, nextAdminId, racevars>>

-----------------------------------------------------------------------------
(* Spec: the membership life cycle.  Groups are created with every         *)
(* subscription policy and without admins; users join, are invited, are    *)
(* accepted, rejected and removed; groups are deleted.                     *)

Next ==
    \/ \E name \in Names, sp \in SubscriptionInputs :
          DoCreate(name, None, sp, <<>>)
    \/ \E i \in RefusedInputs :
          DoCreate(i.name, i.privacy_policy, i.subscription_policy, <<>>)
    \/ \E g \in GroupIds(groups) : DoDelete(g)
    \/ \E g \in GroupIds(groups), u \in Users, state \in StateInputs :
          DoAddMember(g, u, state)
    \/ \E g \in GroupIds(groups), u \in Users : DoRemoveMember(g, u)
    \/ \E g \in GroupIds(groups), u \in Users,
          a \in AdminObjs(Users) \cup {NoObject} : DoInvite(g, u, a)
    \/ \E g \in GroupIds(groups), u \in Users : DoSubscribe(g, u)
    \/ \E m \in DOMAIN members : DoAccept(m)
    \/ \E m \in DOMAIN members : DoReject(m)

Spec == Init /\ [][Next]_vars

-----------------------------------------------------------------------------
(* SpecAdmin: administration.  Groups are created with admins (users, the  *)
(* current user, other groups); admins are added and removed, users are    *)
(* invited by an actor, members are added in every state, groups are       *)
(* deleted.                                                                *)

NextAdmin ==
    \/ \E name \in Names, al \in AdminLists(AdminUsers) :
          DoCreate(name, None, None, al)
    \/ \E i \in RefusedInputs :
          DoCreate(i.name, i.privacy_policy, i.subscription_policy, <<>>)
    \/ \E g \in GroupIds(groups) : DoDelete(g)
    \/ \E g \in GroupIds(groups), a \in AdminObjs(AdminUsers) : DoAddAdmin(g, a)
    \/ \E g \in GroupIds(groups), a \in AdminObjs(AdminUsers) : DoRemoveAdmin(g, a)
    \/ \E g \in GroupIds(groups), u \in AdminUsers, state \in StateInputs :
          DoAddMember(g, u, state)
    \/ \E g \in GroupIds(groups), u \in AdminUsers, a \in AdminObjs(AdminUsers) :
          DoInvite(g, u, a)

SpecAdmin == Init /\ [][NextAdmin]_vars

-----------------------------------------------------------------------------
(* SpecRequests: delegation.  Groups are created without admins; users and *)
(* groups are made admins of groups; users become members or ask to join.  *)

NextRequests ==
    \/ \E name \in Names : DoCreate(name, None, None, <<>>)
    \/ \E g \in GroupIds(groups), a \in MappedAdminObjs(Users) : DoAddAdmin(g, a)
    \/ \E g \in GroupIds(groups), u \in Users, state \in {ACTIVE, PENDING_ADMIN} :
          DoAddMember(g, u, state)
    \/ \E m \in DOMAIN members : DoAccept(m)

SpecRequests == Init /\ [][NextRequests]_vars

-----------------------------------------------------------------------------
(* SpecUpdate: the groups themselves.  Groups are created, with or without *)
(* an admin, updated field by field and renamed, and deleted.              *)

NextUpdate ==
    \/ \E name \in Names, al \in AdminLists(AdminUsers) :
          DoCreate(name, None, None, al)
    \/ \E g \in GroupIds(groups), i \in UpdateInputs :
          DoUpdate(g, i.name, i.description, i.privacy_policy,
                   i.subscription_policy, i.is_managed)
    \/ \E g \in GroupIds(groups) : DoDelete(g)

SpecUpdate == Init /\ [][NextUpdate]_vars

-----------------------------------------------------------------------------
(* SpecInvite: invitations by email.  Groups are created; users are        *)
(* invited by lists of emails, accept, reject and are removed.             *)

NextInvite ==
    \/ \E name \in Names : DoCreate(name, None, None, <<>>)
    \/ \E g \in GroupIds(groups), emails \in EmailLists : DoInviteByEmails(g, emails)
    \/ \E m \in DOMAIN members : DoAccept(m)
    \/ \E m \in DOMAIN members : DoReject(m)
    \/ \E g \in GroupIds(groups), u \in Users : DoRemoveMember(g, u)

SpecInvite == Init /\ [][NextInvite]_vars

-----------------------------------------------------------------------------
(* SpecPrivacy: visibility.  Groups are created with every privacy policy  *)
(* and with a user as admin; members are added in every state.             *)

NextPrivacy ==
    \/ \E name \in Names, pp \in PrivacyInputs,
          al \in {<<>>} \cup {<<UserObj(u)>> : u \in Users} :
          DoCreate(name, pp, None, al)
    \/ \E g \in GroupIds(groups), u \in Users, state \in StateInputs :
          DoAddMember(g, u, state)

SpecPrivacy == Init /\ [][NextPrivacy]_vars

-----------------------------------------------------------------------------
(* SpecRace: two callers run Membership.create at the same time, each in   *)
(* a session and a transaction of its own, on a store holding two groups   *)
(* and no membership.  The statements of one call are the steps:           *)
(*   added    membership = cls(...); db.session.add(membership)            *)
(*   flushed  commit() has sent the INSERT                                 *)
(*   raised   the INSERT failed with IntegrityError                        *)
(*   done     commit() returned, or rollback() ran and the error left      *)
(* uncommitted holds the rows written by transactions still open, and     *)
(* foreign_keys tells whether the store enforces the declared foreign keys. *)

InitRace ==
    /\ groups = {GroupRow(1, "a", "", False, DefaultPrivacy, DefaultSubscription),
                 GroupRow(2, "b", "", False, DefaultPrivacy, DefaultSubscription)}
    /\ members = NoRows
    /\ admins = {}
    /\ nextGroupId = 3
    /\ nextAdminId = 1
    /\ last = Call("init", None)
    /\ session = Active
    /\ sent = <<>>
    /\ calls = IdleCalls
    /\ uncommitted = {}
    /\ foreign_keys = TRUE

\* db.ForeignKey(Group.id) of Membership.id_group and GroupAdmin.group_id: a
\* store that enforces foreign keys refuses a row of a group that is gone.
ForeignKeyMissing(gtbl, enforced, group_id) ==
    enforced /\ group_id \notin GroupIds(gtbl)

\* A store whose INSERT looks at committed rows only.
KeyLocked_never(unc, c, id_user, id_group) == FALSE

\* The primary key of a row another open transaction has inserted is locked:
\* an INSERT of the same key waits for that transaction to end.
KeyLocked(unc, c, id_user, id_group) ==
    \E w \in unc : /\ w.owner # c
                   /\ "id_user" \in DOMAIN w.row
                   /\ w.row.id_user = id_user
                   /\ w.row.id_group = id_group

RaceAdd(c, g, u, state) ==
    /\ calls[c].pc = "idle"
    /\ calls' = [calls EXCEPT ![c] = [pc |-> "added", group |-> g, user |-> u,
                                      state |-> state, ret |-> None]]
    /\ UNCHANGED <<dbvars, callvars, uncommitted, foreign_keys>>

RaceFlush(c) ==
    LET call == calls[c]
        row == MembershipRow(call.user, call.group, call.state)
    IN  /\ call.pc = "added"
        /\ ~KeyLocked(uncommitted, c, call.user, call.group)
        /\ IF \/ MembershipKeyTaken(members, call.user, call.group)
              \/ ForeignKeyMissing(groups, foreign_keys, call.group)
           THEN /\ calls' = [calls EXCEPT ![c].pc = "raised"]
                /\ UNCHANGED uncommitted
           ELSE /\ calls' = [calls EXCEPT ![c].pc = "flushed"]
                /\ uncommitted' = uncommitted \cup {[owner |-> c, row |-> row]}
        /\ UNCHANGED <<dbvars, callvars, foreign_keys>>

RaceCommit(c) ==
    LET call == calls[c]
        row == MembershipRow(call.user, call.group, call.state)
    IN  /\ call.pc = "flushed"
        /\ members' = BagInsert(members, row)
        /\ uncommitted' = {w \in uncommitted : w.owner # c}
        /\ calls' = [calls EXCEPT ![c].pc = "done", ![c].ret = "Membership"]
        /\ UNCHANGED <<groups, admins, nextGroupId, nextAdminId, callvars, foreign_keys>>

RaceRollback(c) ==
    /\ calls[c].pc = "raised"
    /\ uncommitted' = {w \in uncommitted : w.owner # c}
    /\ calls' = [calls EXCEPT ![c].pc = "done", ![c].ret = "IntegrityError"]
    /\ UNCHANGED <<dbvars, callvars, foreign_keys>>

NextRace ==
    \/ \E c \in Callers, g \in GroupIds(groups), u \in Users, state \in StateInputs :
          RaceAdd(c, g, u, state)
    \/ \E c \in Callers : RaceFlush(c)
    \/ \E c \in Callers : RaceCommit(c)
    \/ \E c \in Callers : RaceRollback(c)

SpecRace == InitRace /\ [][NextRace]_vars

-----------------------------------------------------------------------------
(* Properties.                                                             *)

\* The membership rows of the pair (user u, group g).
RowsOf(mtbl, g, u) == {m \in DOMAIN mtbl : m.id_group = g /\ m.id_user = u}

\* How many membership rows the pair has, copies counted.
PairCount(mtbl, g, u) == BagCardinality([m \in RowsOf(mtbl, g, u) |-> mtbl[m]])

\* after is before with the one new row added and nothing else changed.
AddsOnly(before, after, row) ==
    /\ row \notin DOMAIN before
    /\ DOMAIN after = DOMAIN before \cup {row}
    /\ after[row] = 1
    /\ \A m \in DOMAIN before : after[m] = before[m]

\* The rows of every pair but (u, g) are the same in before and after.
SameElsewhere(before, after, g, u) ==
    \A m \in DOMAIN before \cup DOMAIN after :
        (m.id_group # g \/ m.id_user # u) =>
            /\ m \in DOMAIN before
            /\ m \in DOMAIN after
            /\ before[m] = after[m]

PolicyOf(g) == GroupById(groups, g).subscription_policy

PrivacyOf(g) == GroupById(groups, g).privacy_policy

\* C1: for a user without a membership in the group, subscribe adds an ACTIVE
\* membership when the group is OPEN, a PENDING_ADMIN membership when it is
\* APPROVAL, and adds nothing and returns None when it is CLOSED.
C1_SubscribeFollowsPolicy ==
    \A g \in GroupIds(groups), u \in Users :
        RowsOf(members, g, u) = {} =>
            LET r == Group_subscribe(groups, members, g, u)
            IN  /\ PolicyOf(g) \in {OPEN, APPROVAL, CLOSED}
                /\ PolicyOf(g) = OPEN =>
                       /\ r.ret = "Membership"
                       /\ AddsOnly(members, r.members, MembershipRow(u, g, ACTIVE))
                /\ PolicyOf(g) = APPROVAL =>
                       /\ r.ret = "Membership"
                       /\ AddsOnly(members, r.members,
                                   MembershipRow(u, g, PENDING_ADMIN))
                /\ PolicyOf(g) = CLOSED =>
                       /\ r.ret = None
                       /\ r.members = members

\* A subscribe has just put a request into a group that asks for approval.
C1_Witness ==
    /\ last = Call("subscribe", "Membership")
    /\ \E m \in DOMAIN members :
           /\ m.state = PENDING_ADMIN
           /\ m.id_group \in GroupIds(groups)
           /\ PolicyOf(m.id_group) = APPROVAL

\* Whether the GroupAdmin table registers the actor x for the group g.
Registered(g, x) ==
    \E a \in admins : /\ a.group_id = g
                      /\ a.admin_id = x.id
                      /\ a.admin_type = (IF x.kind = "Group" THEN "Group" ELSE "User")

\* C2: for a user without a membership in the group and an actor X handed in
\* as admin, invite adds a PENDING_USER membership if X is an admin of the
\* group; if X is not, it adds nothing, returns None and raises nothing.
C2_InviteIffAdmin ==
    \A g \in GroupIds(groups), u \in AdminUsers, x \in AdminObjs(AdminUsers) :
        RowsOf(members, g, u) = {} =>
            LET r == Group_invite(members, admins, g, u, x)
            IN  /\ Registered(g, x) = Group_is_admin(admins, g, x)
                /\ Registered(g, x) =>
                       /\ r.ret = "Membership"
                       /\ AddsOnly(members, r.members,
                                   MembershipRow(u, g, PENDING_USER))
                /\ ~Registered(g, x) =>
                       /\ r.ret = None
                       /\ r.members = members

\* An admin of the group has just invited a user.
C2_Witness ==
    /\ last = Call("invite", "Membership")
    /\ \E m \in DOMAIN members :
           /\ m.state = PENDING_USER
           /\ \E a \in admins : a.group_id = m.id_group

\* C3: accept leaves a pending membership ACTIVE; on an ACTIVE membership it
\* changes nothing; in both cases no other membership changes and accepting
\* again changes nothing.
C3_AcceptActivates ==
    \A m \in DOMAIN members :
        LET r == Membership_accept(members, m)
            active == MembershipRow(m.id_user, m.id_group, ACTIVE)
        IN  /\ r.ret = None
            /\ RowsOf(r.members, m.id_group, m.id_user) = {active}
            /\ PairCount(r.members, m.id_group, m.id_user) = 1
            /\ SameElsewhere(members, r.members, m.id_group, m.id_user)
            /\ m.state = ACTIVE => r.members = members
            /\ Membership_accept(r.members, active).members = r.members

\* An accept has just activated a membership while another one is pending.
C3_Witness ==
    /\ last = Call("accept", None)
    /\ \E m \in DOMAIN members : m.state = ACTIVE
    /\ \E m \in DOMAIN members : m.state = PENDING_ADMIN

Pending == {PENDING_ADMIN, PENDING_USER}

\* C4: in every step, the row of a pair that has a row before and after the
\* step keeps its state or goes from a pending state to ACTIVE, and it does
\* the latter only in an accept; no row goes between the pending states or
\* from ACTIVE back to pending.
C4_OnlyPendingToActive ==
    [][\A m \in DOMAIN members, n \in DOMAIN members' :
           (m.id_user = n.id_user /\ m.id_group = n.id_group) =>
               \/ n.state = m.state
               \/ /\ m.state \in Pending
                  /\ n.state = ACTIVE
                  /\ last'.op = "accept"]_vars

\* A pending invitation is still pending after a remove_member.
C4_Witness ==
    /\ last = Call("remove_member", None)
    /\ \E m \in DOMAIN members : m.state = PENDING_USER

\* C5: reject removes the row of its pair whatever its state: Membership.get
\* of the pair finds nothing afterwards, no row of the pair is left in any
\* state, and the rows of every other pair are unchanged.
C5_RejectRemovesRow ==
    \A m \in DOMAIN members :
        LET r == Membership_reject(members, m)
        IN  /\ r.ret = None
            /\ Membership_get(r.members, m.id_group, m.id_user) = NoObject
            /\ RowsOf(r.members, m.id_group, m.id_user) = {}
            /\ SameElsewhere(members, r.members, m.id_group, m.id_user)

\* A reject has just removed one of two memberships.
C5_Witness ==
    /\ last = Call("reject", None)
    /\ MemberCount(members) = 1

\* C6: every pair has at most one membership row, and for a pair that has a
\* row Membership.create, add_member, invite and (in a group that is not
\* closed) subscribe raise IntegrityError and leave the table as it is.
C6_OneRowPerPair ==
    /\ \A m \in DOMAIN members : PairCount(members, m.id_group, m.id_user) = 1
    /\ \A g \in GroupIds(groups), u \in Users :
           LET raised == [ret |-> "IntegrityError", members |-> members]
           IN  RowsOf(members, g, u) # {} =>
                   /\ \A state \in StateInputs :
                          /\ Membership_create(members, g, u, state) = raised
                          /\ Group_add_member(members, g, u, state) = raised
                   /\ Group_invite(members, admins, g, u, NoObject) = raised
                   /\ PolicyOf(g) # CLOSED =>
                          Group_subscribe(groups, members, g, u) = raised

\* A subscribe of a user who has a row in the group has just been refused.
C6_Witness ==
    /\ last = Call("subscribe", "IntegrityError")
    /\ members # NoRows

\* Both callers have finished a Membership.create of the same pair.
RacedOn(c, d) ==
    /\ c # d
    /\ calls[c].pc = "done"
    /\ calls[d].pc = "done"
    /\ calls[c].group = calls[d].group
    /\ calls[c].user = calls[d].user

\* C7: when two callers have run Membership.create for the same pair, which
\* had no row, one call has returned the membership, the other has raised
\* IntegrityError, and the pair has exactly one row.
C7_OneCreateWins ==
    \A c \in Callers, d \in Callers :
        RacedOn(c, d) =>
            /\ {calls[c].ret, calls[d].ret} = {"Membership", "IntegrityError"}
            /\ PairCount(members, calls[c].group, calls[c].user) = 1

\* The two callers raced for one pair with different states, and the second
\* caller lost.
C7_Witness ==
    /\ RacedOn("c1", "c2")
    /\ calls["c1"].state # calls["c2"].state
    /\ calls["c2"].ret = "IntegrityError"

C9_CreateThenGetByName ==
    \A name \in Names, pp \in PrivacyInputs, al \in AdminLists(AdminUsers) :
        LET r == Group_create(groups, admins, nextGroupId, nextAdminId, name, "",
                              pp, None, False, al)
            found == Group_get_by_name(r.groups, name)
        IN  /\ (\A g \in groups : g.name # name) =>
                   /\ r.ret = "Group"
                   /\ found # NoObject
                   /\ found.name = name
                   /\ found.id = nextGroupId
                   /\ groups \subseteq r.groups
            /\ (\E g \in groups : g.name = name) =>
                   /\ r.ret = "IntegrityError"
                   /\ r.groups = groups
                   /\ r.admins = admins
                   /\ Group_get_by_name(r.groups, name) \in groups

\* A create with the name of an existing group has just been refused.
C9_Witness ==
    /\ last = Call("create", "IntegrityError")
    /\ admins # {}

\* C10: after Group.delete the group is gone and get_by_name of its name
\* finds nothing, no membership row and no admin row refers to it, and the
\* other groups and their membership rows are as before.
C10_DeleteRemovesRows ==
    \A g \in GroupIds(groups) :
        LET self == GroupById(groups, g)
            r == Group_delete(groups, members, admins, g)
        IN  /\ r.ret = None
            /\ r.groups = groups \ {self}
            /\ Group_get_by_name(r.groups, self.name) = NoObject
            /\ \A m \in DOMAIN r.members : m.id_group # g
            /\ \A a \in r.admins : a.group_id # g
            /\ \A m \in DOMAIN members :
                   m.id_group # g => (m \in DOMAIN r.members /\ r.members[m] = members[m])
            /\ DOMAIN r.members \subseteq DOMAIN members

\* A delete has just removed one of two groups; the other keeps its members.
C10_Witness ==
    /\ last = Call("delete", None)
    /\ groups # {}
    /\ \E m \in DOMAIN members : m.state \in Pending

\* C11: members_count of a group is the number of its membership rows, in
\* all three states.
C11_CountsAllStates ==
    \A g \in GroupIds(groups) :
        Group_members_count(members, g)
            = count(members, {m \in DOMAIN members : m.id_group = g})

\* The group g2 is registered as an admin of g1 and the user u is an ACTIVE
\* member of g2.
Delegated(g1, g2, u) ==
    /\ \E a \in admins : /\ a.group_id = g1
                         /\ a.admin_type = "Group"
                         /\ a.admin_id = g2
    /\ MembershipRow(u, g2, ACTIVE) \in DOMAIN members

\* C12: when a group G2 is an admin of G1 and U is an ACTIVE member of G2,
\* query_requests(U) contains every PENDING_ADMIN membership of G1.
C12_DelegatedRequests ==
    \A g1 \in GroupIds(groups), g2 \in GroupIds(groups), u \in Users :
        Delegated(g1, g2, u) =>
            \A x \in {UserObj(u), UserInfoObj(u)} :
                \A m \in DOMAIN members :
                    (m.id_group = g1 /\ m.state = PENDING_ADMIN) =>
                        m \in Membership_query_requests(members, admins, x)

\* A user who is no admin of G1 and no member of it sees the request of
\* another user through G2.
C12_Witness ==
    \E g1 \in GroupIds(groups), g2 \in GroupIds(groups), u \in Users, v \in Users :
        /\ g1 # g2
        /\ u # v
        /\ Delegated(g1, g2, u)
        /\ ~Group_is_admin(admins, g1, UserObj(u))
        /\ RowsOf(members, g1, u) = {}
        /\ MembershipRow(v, g1, PENDING_ADMIN) \in DOMAIN members
        /\ MembershipRow(v, g1, PENDING_ADMIN)
               \in Membership_query_requests(members, admins, UserObj(u))

UpdateApplies(g, name, description, pp, sp, is_managed) ==
    LET self == GroupById(groups, g)
        r == Group_update(groups, g, name, description, pp, sp, is_managed)
        new == GroupById(r.groups, g)
    IN  /\ r.ret \in {"Group", "IntegrityError"}
        /\ (r.ret = "IntegrityError") =
               (name # None /\ \E h \in groups : h.id # g /\ h.name = name)
        /\ r.ret = "Group" =>
               /\ new.name = (IF name = None THEN self.name ELSE name)
               /\ new.description =
                      (IF description = None THEN self.description ELSE description)
               /\ new.is_managed =
                      (IF is_managed = None THEN self.is_managed ELSE is_managed)
               /\ new.privacy_policy =
                      (IF pp \in {PUBLIC, MEMBERS, ADMINS} THEN pp
                       ELSE self.privacy_policy)
               /\ new.subscription_policy =
                      (IF sp \in {OPEN, APPROVAL, CLOSED} THEN sp
                       ELSE self.subscription_policy)
               /\ r.groups \ {new} = groups \ {self}

UpdateAppliesAll ==
    \A g \in GroupIds(groups), name \in NameUpdates,
       description \in DescriptionUpdates, pp \in PrivacyUpdates,
       sp \in SubscriptionUpdates, is_managed \in ManagedUpdates :
        UpdateApplies(g, name, description, pp, sp, is_managed)

\* An update step leaves the membership and admin rows and the set of group
\* ids as they are.
UpdateFrame ==
    last'.op = "update" =>
        /\ members' = members
        /\ admins' = admins
        /\ GroupIds(groups') = GroupIds(groups)

\* C14: Group.update is a partial update.  A non-None name, description or
\* is_managed is set and a None one is left; a policy is set when it is a
\* valid code, and an unknown code leaves the policy as it was, raises
\* nothing and does not keep the other fields from being set; memberships
\* and admin rows are never changed.
C14_PartialUpdate == []UpdateAppliesAll /\ [][UpdateFrame]_vars

\* An update has left a group that has an admin with a new description and
\* subscription policy and the privacy policy it had.
C14_Witness ==
    /\ last = Call("update", "Group")
    /\ \E g \in groups :
           /\ g.description = "d"
           /\ g.subscription_policy = OPEN
           /\ g.privacy_policy = DefaultPrivacy
           /\ \E a \in admins : a.group_id = g.id

\* C15: no two groups have the same name, whatever creates, updates,
\* renames and deletes have been made.
C15_UniqueNames ==
    \A g \in groups, h \in groups : g.name = h.name => g = h

\* Two groups exist and a rename of one to the name of the other has just
\* been refused.
C15_Witness ==
    /\ last = Call("update", "IntegrityError")
    /\ session = Inactive
    /\ \E g \in groups, h \in groups :
           /\ g.id < h.id
           /\ g.name = "b"
           /\ h.name = "a"

\* C16: for an admin A of every kind (a User, the current user or UserInfo,
\* a Group), an add_admin(A) that succeeds stores a row of the group with
\* the resolved type and the id of A, after which is_admin(A) is true; and
\* is_admin(A) is true only when such a row exists.
C16_AdminTypeResolved ==
    \A g \in GroupIds(groups), x \in AdminObjs(AdminUsers) :
        LET r == GroupAdmin_create(admins, nextAdminId, g, x)
            type == IF x.kind = "Group" THEN "Group" ELSE "User"
        IN  /\ resolve_admin_type(x) = type
            /\ r.ret = "GroupAdmin" =>
                   /\ r.admins \ admins =
                          {GroupAdminRow(nextAdminId, g, type, x.id)}
                   /\ Group_is_admin(r.admins, g, x)
            /\ Group_is_admin(admins, g, x) = Registered(g, x)

\* add_admin has just registered a user, whom is_admin recognises as a User
\* and as the current user.
C16_Witness ==
    /\ last = Call("add_admin", "GroupAdmin")
    /\ \E a \in admins :
           /\ a.admin_type = "User"
           /\ Group_is_admin(admins, a.group_id, UserObj(a.admin_id))
           /\ Group_is_admin(admins, a.group_id, UserInfoObj(a.admin_id))

C18_FailedCallRollsBack ==
    (/\ last.op \in {"create", "update", "delete", "accept", "reject"}
     /\ last.ret = "IntegrityError") => session = Active

\* C19: no mutating call swallows a storage error.  For a user who has a
\* membership in the group the INSERT of a second one fails: invite raises
\* IntegrityError, and so does invite_by_emails of that user's email.
C19_StorageErrorsRaised ==
    \A g \in GroupIds(groups), u \in Users :
        RowsOf(members, g, u) # {} =>
            /\ Group_invite(members, admins, g, u, NoObject).ret = "IntegrityError"
            /\ Group_invite_by_emails(members, admins, g, <<EmailOf(u)>>).ret
                   = "IntegrityError"

\* The position of the first email of the list that is the email of a user;
\* 0 when there is none.
FirstResolvable(emails) ==
    LET hits == {i \in 1..Len(emails) : User_by_email(emails[i]) \notin Exceptions}
    IN  IF hits = {} THEN 0 ELSE CHOOSE i \in hits : \A j \in hits : i <= j

\* C20: invite_by_emails invites the user of the first email of the list
\* that resolves to a user, whatever unresolvable emails come before it, adds
\* that one PENDING_USER membership and no other, and invites nobody when no
\* email resolves.
C20_FirstResolvableInvited ==
    \A g \in GroupIds(groups), emails \in EmailLists :
        LET i == FirstResolvable(emails)
            r == Group_invite_by_emails(members, admins, g, emails)
        IN  IF i = 0 THEN r.ret = None /\ r.members = members
            ELSE LET u == User_by_email(emails[i]).id
                 IN  RowsOf(members, g, u) = {} =>
                         /\ r.ret = "Membership"
                         /\ AddsOnly(members, r.members,
                                     MembershipRow(u, g, PENDING_USER))

\* C21: in a group whose privacy policy is MEMBERS, every registered admin
\* of the group and every user with an ACTIVE membership can see the members.
C21_MembersPolicyAdmitsAdmins ==
    \A g \in GroupIds(groups), u \in Users :
        (/\ PrivacyOf(g) = MEMBERS
         /\ \/ Registered(g, UserObj(u))
            \/ MembershipRow(u, g, ACTIVE) \in DOMAIN members) =>
            Group_can_see_members(groups, members, admins, g, UserObj(u))

-----------------------------------------------------------------------------
(* SpecChain: three groups in a chain of administration.  Group 3 is an    *)
(* admin of group 2, group 2 is an admin of group 1 and user 1 is an admin *)
(* of group 1 too; users are added in every state, accepted and removed,   *)
(* admins are removed and groups are deleted.                              *)

InitChain ==
    /\ groups = {GroupRow(1, "a", "", False, DefaultPrivacy, DefaultSubscription),
                 GroupRow(2, "b", "", False, DefaultPrivacy, DefaultSubscription),
                 GroupRow(3, "c", "", False, DefaultPrivacy, DefaultSubscription)}
    /\ members = NoRows
    /\ admins = {GroupAdminRow(1, 2, "Group", 3),
                 GroupAdminRow(2, 1, "Group", 2),
                 GroupAdminRow(3, 1, "User", 1)}
    /\ nextGroupId = 4
    /\ nextAdminId = 4
    /\ last = Call("init", None)
    /\ session = Active
    /\ sent = <<>>
    /\ calls = IdleCalls
    /\ uncommitted = {}
    /\ foreign_keys = TRUE

NextChain ==
    \/ \E g \in GroupIds(groups), u \in Users, state \in StateInputs :
          DoAddMember(g, u, state)
    \/ \E g \in GroupIds(groups), u \in Users : DoRemoveMember(g, u)
    \/ \E m \in DOMAIN members : DoAccept(m)
    \/ \E g \in GroupIds(groups), a \in MappedAdminObjs(Users) : DoRemoveAdmin(g, a)
    \/ \E g \in GroupIds(groups) : DoDelete(g)

SpecChain == InitChain /\ [][NextChain]_vars

\* The PENDING_ADMIN rows the user may see: those of the groups with an admin
\* row of the user, and those of the groups with an admin row of a group the
\* user has an ACTIVE row in.
VisibleRequests(u) ==
    {m \in DOMAIN members :
        /\ m.state = PENDING_ADMIN
        /\ \E a \in admins :
              /\ a.group_id = m.id_group
              /\ \/ a.admin_type = "User" /\ a.admin_id = u
                 \/ /\ a.admin_type = "Group"
                    /\ MembershipRow(u, a.admin_id, ACTIVE) \in DOMAIN members}

\* C22: query_requests(A) is exactly the set of PENDING_ADMIN memberships of
\* the groups A administers directly or that are administered by a group A is
\* an ACTIVE member of: no row in another state, nothing through a pending
\* membership of A, nothing through two levels of administration.
C22_RequestsExact ==
    \A u \in Users :
        \A x \in {UserObj(u), UserInfoObj(u)} :
            Membership_query_requests(members, admins, x) = VisibleRequests(u)

\* Group 3 administers group 2 and group 2 administers group 1; the user is
\* ACTIVE in group 3 and has no row in group 2, and does not get the request
\* another user made on group 1.
C22_Witness ==
    \E u \in Users, v \in Users :
        /\ u # v
        /\ GroupAdminRow(1, 2, "Group", 3) \in admins
        /\ GroupAdminRow(2, 1, "Group", 2) \in admins
        /\ MembershipRow(u, 3, ACTIVE) \in DOMAIN members
        /\ RowsOf(members, 2, u) = {}
        /\ MembershipRow(v, 1, PENDING_ADMIN) \in DOMAIN members
        /\ MembershipRow(v, 1, PENDING_ADMIN)
               \notin Membership_query_requests(members, admins, UserObj(u))

\* C23: every admin row belongs to an existing group, and every admin row
\* whose admin is a group names an existing group; a successful delete of a
\* group removes the rows it owns and the rows where it is the admin of
\* another group, and no other admin row.
C23_AdminRowsRefer ==
    /\ [](\A a \in admins :
             /\ a.group_id \in GroupIds(groups)
             /\ a.admin_type = "Group" => a.admin_id \in GroupIds(groups))
    /\ [][(last'.op = "delete" /\ last'.ret = None) =>
             \E g \in GroupIds(groups) \ GroupIds(groups') :
                 admins' = {a \in admins :
                               /\ a.group_id # g
                               /\ ~(a.admin_type = "Group" /\ a.admin_id = g)}]_vars

\* Group 2, which was created as an admin of group 1, has been deleted:
\* group 1 has no row of group 2 left and keeps the row of its other admin.
C23_Witness ==
    /\ last = Call("delete", None)
    /\ 1 \in GroupIds(groups)
    /\ 2 \notin GroupIds(groups)
    /\ GroupAdminRow(3, 1, "User", 1) \in admins
    /\ \A a \in admins : ~(a.admin_type = "Group" /\ a.admin_id = 2)

-----------------------------------------------------------------------------
(* SpecOrphan: Group.delete runs while another caller inserts a membership *)
(* (Membership.create, reached from subscribe, invite and add_member) or   *)
(* an admin (GroupAdmin.create, reached from add_admin) of the same group. *)
(* Each caller has loaded the group and works in a transaction of its own. *)
(* The statements of Group.delete are the steps:                           *)
(*   deleting  the call has started                                        *)
(*   selected  the bulk deletes ran and db.session.delete(self) collected  *)
(*             the rows of self.members and self.admins it will delete     *)
(*   done      commit() deleted the collected rows and the group row, or   *)
(*             it failed on a foreign key and rollback() ran               *)
(* The store enforces the declared foreign keys or, as SQLite does unless  *)
(* told otherwise, does not.                                               *)

InitOrphan ==
    /\ groups = {GroupRow(1, "a", "", False, DefaultPrivacy, DefaultSubscription),
                 GroupRow(2, "b", "", False, DefaultPrivacy, DefaultSubscription)}
    /\ members = NoRows
    /\ admins = {}
    /\ nextGroupId = 3
    /\ nextAdminId = 1
    /\ last = Call("init", None)
    /\ session = Active
    /\ sent = <<>>
    /\ calls = IdleCalls
    /\ uncommitted = {}
    /\ foreign_keys \in BOOLEAN

\* The group a membership row or an admin row belongs to.
RowGroup(row) == IF "id_group" \in DOMAIN row THEN row.id_group ELSE row.group_id

\* The committed rows Group.delete removes with the group: its memberships,
\* its admin rows and the rows where it is the admin.
RowsOfGroup(mtbl, atbl, group) ==
    {m \in DOMAIN mtbl : m.id_group = group}
        \cup GroupAdmin_query_by_group(atbl, group)
        \cup GroupAdmin_query_by_admin(atbl, GroupObj(group))

RaceAddAdmin(c, g, admin) ==
    /\ calls[c].pc = "idle"
    /\ calls' = [calls EXCEPT ![c] = [pc |-> "admin_added", group |-> g,
                                      user |-> admin.id,
                                      state |-> resolve_admin_type(admin),
                                      ret |-> None]]
    /\ UNCHANGED <<dbvars, callvars, uncommitted, foreign_keys>>

RaceFlushAdmin(c) ==
    LET call == calls[c]
        row == GroupAdminRow(nextAdminId, call.group, call.state, call.user)
    IN  /\ call.pc = "admin_added"
        /\ ~\E w \in uncommitted : /\ w.owner # c
                                   /\ "admin_id" \in DOMAIN w.row
                                   /\ w.row.group_id = call.group
                                   /\ w.row.admin_type = call.state
                                   /\ w.row.admin_id = call.user
        /\ IF \/ AdminKeyTaken(admins, call.group, call.state, call.user)
              \/ ForeignKeyMissing(groups, foreign_keys, call.group)
           THEN /\ calls' = [calls EXCEPT ![c].pc = "raised"]
                /\ UNCHANGED <<uncommitted, nextAdminId>>
           ELSE /\ calls' = [calls EXCEPT ![c].pc = "admin_flushed"]
                /\ uncommitted' = uncommitted \cup {[owner |-> c, row |-> row]}
                /\ nextAdminId' = nextAdminId + 1
        /\ UNCHANGED <<groups, members, admins, nextGroupId, callvars, foreign_keys>>

RaceCommitAdmin(c) ==
    /\ calls[c].pc = "admin_flushed"
    /\ admins' = admins \cup {w.row : w \in {v \in uncommitted : v.owner = c}}
    /\ uncommitted' = {w \in uncommitted : w.owner # c}
    /\ calls' = [calls EXCEPT ![c].pc = "done", ![c].ret = "GroupAdmin"]
    /\ UNCHANGED <<groups, members, nextGroupId, nextAdminId, callvars, foreign_keys>>

RaceDelete(c, g) ==
    /\ calls[c].pc = "idle"
    /\ \A d \in Callers : ~(calls[d].pc \in {"deleting", "selected"} /\ calls[d].group = g)
    /\ calls' = [calls EXCEPT ![c] = [pc |-> "deleting", group |-> g, user |-> 0,
                                      state |-> None, ret |-> None]]
    /\ UNCHANGED <<dbvars, callvars, uncommitted, foreign_keys>>

RaceDeleteSelect(c) ==
    LET call == calls[c]
    IN  /\ call.pc = "deleting"
        /\ calls' = [calls EXCEPT ![c].pc = "selected"]
        /\ uncommitted' = uncommitted \cup
               {[owner |-> c, row |-> r] : r \in RowsOfGroup(members, admins, call.group)}
        /\ UNCHANGED <<dbvars, callvars, foreign_keys>>

\* commit() of Group.delete: the collected rows and the group row are
\* deleted.  A store that enforces foreign keys waits for the open
\* transactions that inserted a row of the group, and refuses to delete the
\* group row while a row of the group is left.
RaceDeleteCommit(c) ==
    LET call == calls[c]
        mine == {w.row : w \in {v \in uncommitted : v.owner = c}}
        left == {r \in RowsOfGroup(members, admins, call.group) :
                    RowGroup(r) = call.group} \ mine
        open == {w \in uncommitted : w.owner # c /\ RowGroup(w.row) = call.group}
    IN  /\ call.pc = "selected"
        /\ foreign_keys => open = {}
        /\ uncommitted' = {w \in uncommitted : w.owner # c}
        /\ IF foreign_keys /\ left # {}
           THEN /\ calls' = [calls EXCEPT ![c].pc = "done",
                                          ![c].ret = "IntegrityError"]
                /\ UNCHANGED <<groups, members, admins>>
           ELSE /\ calls' = [calls EXCEPT ![c].pc = "done"]
                /\ groups' = groups \ {GroupById(groups, call.group)}
                /\ members' = BagDelete(members, mine)
                /\ admins' = admins \ mine
        /\ UNCHANGED <<nextGroupId, nextAdminId, callvars, foreign_keys>>

NextOrphan ==
    \/ \E c \in Callers, g \in GroupIds(groups), u \in Users, state \in StateInputs :
          RaceAdd(c, g, u, state)
    \/ \E c \in Callers : RaceFlush(c)
    \/ \E c \in Callers : RaceCommit(c)
    \/ \E c \in Callers : RaceRollback(c)
    \/ \E c \in Callers, g \in GroupIds(groups), u \in Users :
          RaceAddAdmin(c, g, UserObj(u))
    \/ \E c \in Callers : RaceFlushAdmin(c)
    \/ \E c \in Callers : RaceCommitAdmin(c)
    \/ \E c \in Callers, g \in GroupIds(groups) : RaceDelete(c, g)
    \/ \E c \in Callers : RaceDeleteSelect(c)
    \/ \E c \in Callers : RaceDeleteCommit(c)

SpecOrphan == InitOrphan /\ [][NextOrphan]_vars

\* C24: once a delete of a group and the insert another caller made on the
\* same group have both completed, no membership row and no admin row
\* belongs to a group that is gone.
C24_NoOrphanRows ==
    (\A c \in Callers : calls[c].pc \in {"idle", "done"}) =>
        /\ \A m \in DOMAIN members : m.id_group \in GroupIds(groups)
        /\ \A a \in admins : a.group_id \in GroupIds(groups)

\* The admins lists of one or two entries.
AdminPairs(us) ==
    {<<a>> : a \in AdminObjs(us)} \cup {<<a, b>> : a \in AdminObjs(us), b \in AdminObjs(us)}

\* C25: Group.create with an admins list is all or nothing.  When it
\* succeeds the new group is there with one admin row per entry of the list,
\* of the entry's resolved type and id, and is_admin holds for every entry;
\* when it raises, the groups and the admin rows are what they were.
C25_CreateWithAdmins ==
    \A name \in Names, al \in AdminPairs(AdminUsers) :
        LET r == Group_create(groups, admins, nextGroupId, nextAdminId,
                              name, "", None, None, False, al)
            new == r.admins \ admins
        IN  IF r.ret = "Group"
            THEN /\ GroupIds(r.groups) = GroupIds(groups) \cup {nextGroupId}
                 /\ groups \subseteq r.groups
                 /\ admins \subseteq r.admins
                 /\ Cardinality(new) = Len(al)
                 /\ \A a \in new : a.group_id = nextGroupId
                 /\ \A i \in 1..Len(al) :
                        /\ \E a \in new : /\ a.admin_type = resolve_admin_type(al[i])
                                          /\ a.admin_id = al[i].id
                        /\ Group_is_admin(r.admins, nextGroupId, al[i])
            ELSE /\ r.ret = "IntegrityError"
                 /\ r.groups = groups
                 /\ r.admins = admins

\* A group has just been created with an admin: the admin row is there and
\* is_admin of the user holds.
C25_Witness ==
    /\ last = Call("create", "Group")
    /\ \E g \in GroupIds(groups) :
           /\ g + 1 = nextGroupId
           /\ \E a \in admins : /\ a.group_id = g
                                /\ a.id + 1 = nextAdminId
           /\ \E x \in AdminObjs(AdminUsers) : Group_is_admin(admins, g, x)

-----------------------------------------------------------------------------
(* SpecCodes: calls handed a code that is none of the defined ones.  Groups *)
(* are created and updated with known and unknown policy codes, and users   *)
(* are added with known and unknown membership states.                      *)

\* The state argument of add_member and Membership.create: any value.
AnyStateInputs == StateInputs \cup {BadCode}

\* Updates of one policy: a known code, an unknown code.
CodeUpdates ==
    {UpdateArgs(None, None, PUBLIC, None, None),
     UpdateArgs(None, None, BadCode, None, None),
     UpdateArgs(None, None, None, OPEN, None),
     UpdateArgs(None, None, None, BadCode, None)}

NextCodes ==
    \/ \E name \in Names : DoCreate(name, None, None, <<>>)
    \/ \E i \in RefusedInputs :
          DoCreate(i.name, i.privacy_policy, i.subscription_policy, <<>>)
    \/ \E g \in GroupIds(groups), i \in CodeUpdates :
          DoUpdate(g, i.name, i.description, i.privacy_policy,
                   i.subscription_policy, i.is_managed)
    \/ \E g \in GroupIds(groups), u \in Users, state \in AnyStateInputs :
          DoAddMember(g, u, state)

SpecCodes == Init /\ [][NextCodes]_vars

\* C26: every membership row holds one of the three membership states and
\* every group one of the three privacy policies and one of the three
\* subscription policies: no call stores a code that is none of them.
C26_KnownCodesOnly ==
    /\ \A m \in DOMAIN members : MembershipState_validate(m.state)
    /\ \A g \in groups : /\ PrivacyPolicy_validate(g.privacy_policy)
                         /\ SubscriptionPolicy_validate(g.subscription_policy)

\* C27: remove_admin of an admin of the group, of whatever kind and however
\* registered, succeeds and removes the one row of that admin, after which
\* is_admin is false, and changes no other admin row and no membership;
\* remove_admin of anyone else raises and removes nothing.
C27_RemoveAdmin ==
    [][\A g \in GroupIds(groups), x \in AdminObjs(AdminUsers) :
           DoRemoveAdmin(g, x) =>
               /\ members' = members
               /\ IF Group_is_admin(admins, g, x)
                  THEN /\ last'.ret = None
                       /\ ~Group_is_admin(admins', g, x)
                       /\ admins' \subseteq admins
                       /\ Cardinality(admins \ admins') = 1
                  ELSE /\ last'.ret # None
                       /\ admins' = admins]_vars

\* C28: remove_member and Membership.delete remove the row of the pair
\* whatever its state and raise nothing, also when the pair has no row, in
\* which case nothing changes; the rows of every other pair, the admin rows
\* and the groups stay as they are.
C28_RemoveMember ==
    /\ [](\A g \in GroupIds(groups), u \in Users :
             LET r == Group_remove_member(members, g, u)
             IN  /\ r = Membership_delete(members, g, u)
                 /\ r.ret = None
                 /\ RowsOf(r.members, g, u) = {}
                 /\ SameElsewhere(members, r.members, g, u)
                 /\ RowsOf(members, g, u) = {} => r.members = members)
    /\ [][\A g \in GroupIds(groups), u \in Users :
             DoRemoveMember(g, u) =>
                 /\ last'.ret = None
                 /\ RowsOf(members', g, u) = {}
                 /\ SameElsewhere(members, members', g, u)
                 /\ admins' = admins
                 /\ groups' = groups]_vars

\* A remove_member has just returned in a store that holds admin rows and a
\* pending membership of another pair.
C28_Witness ==
    /\ last = Call("remove_member", None)
    /\ admins # {}
    /\ \E m \in DOMAIN members : m.state \in Pending

\* The objects of the other kind that carry the id of the admin of the row:
\* the user (as User and as current user) for a row of a group, the group
\* for a row of a user.
SameIdOtherKind(a) ==
    IF a.admin_type = "Group"
    THEN {x \in {UserObj(a.admin_id), UserInfoObj(a.admin_id)} : a.admin_id \in Users}
    ELSE {x \in {GroupObj(a.admin_id)} : a.admin_id \in GroupIds(groups)}

\* C29: an admin row of a group with id n gives nothing to the user with id
\* n, and an admin row of a user with id n gives nothing to the group with
\* id n: unless registered itself, the other is no admin, cannot see the
\* members under the ADMINS policy, invites nobody when named as the admin,
\* and gets from query_requests what it would get without the row.
C29_NoAliasing ==
    \A a \in admins :
        \A x \in SameIdOtherKind(a) :
            LET g == a.group_id
            IN  ~Registered(g, x) =>
                    /\ ~Group_is_admin(admins, g, x)
                    /\ PrivacyOf(g) = ADMINS =>
                           Group_can_see_members(groups, members, admins, g, x) = FALSE
                    /\ \A u \in Users :
                           Group_invite(members, admins, g, u, x)
                               = [ret |-> None, members |-> members]
                    /\ (x.kind = "Group"
                        \/ MembershipRow(a.admin_id, a.admin_id, ACTIVE)
                               \notin DOMAIN members) =>
                           Membership_query_requests(members, admins, x)
                               = Membership_query_requests(members, admins \ {a}, x)

\* Group 1 is registered as an admin of a group that has a request pending,
\* user 1 is not, and query_requests of user 1 is empty.
C29_Witness ==
    \E a \in admins :
        /\ a.admin_type = "Group"
        /\ a.admin_id = 1
        /\ ~Registered(a.group_id, UserObj(1))
        /\ \E m \in DOMAIN members : m.id_group = a.group_id /\ m.state = PENDING_ADMIN
        /\ Membership_query_requests(members, admins, UserObj(1)) = {}
        /\ last.op = "add_admin"

=============================================================================
